---- MODULE Spec2Model ----
(***************************************************************************)
(* Model of the worker pool of src/src/lib.rs: ThreadPool::new,            *)
(* ThreadPool::execute, Drop for ThreadPool and the worker thread loop of  *)
(* Worker::new.  The owner thread (the caller of new / execute / drop) and *)
(* every worker thread are processes; every step of a thread that touches  *)
(* shared state (the channel, the receiver mutex, a join handle) is one    *)
(* action.                                                                 *)
(***************************************************************************)
EXTENDS Integers, Sequences, FiniteSets, TLC

\* Largest `size` argument of ThreadPool::new that is explored (0 included).
MaxSize == 2

\* Largest number of execute calls (jobs) that is explored.
MaxJobs == 3

\* Worker ids that can exist: `for id in 0..size`.
Ids == 0 .. (MaxSize - 1)

\* Job identities: the k-th closure handed to execute is job k.
JobIds == 1 .. MaxJobs

\* What a submitted closure does when it is called: return, panic, or
\* never return (e.g. a handler blocked on a socket).
Kinds == {"ok", "panic", "hang"}

\* The value of `job` (Result<Job, RecvError>) when recv returned Err.
NoJob == 0

VARIABLES
    size,       \* the argument of ThreadPool::new
    mainPc,     \* position of the owner thread
    next,       \* loop index of `for id in 0..size` / `for worker in &mut self.workers`
    sender,     \* ThreadPool.sender: "uninit" | "Some" | "None"
    workers,    \* ThreadPool.workers: sequence of [id, thread]
    wstate,     \* position of each worker thread
    cur,        \* each worker thread's local `job`
    guards,     \* the threads that hold a MutexGuard of the receiver mutex
    poisoned,   \* the poison flag of the receiver mutex
    queue,      \* the channel's buffered jobs
    kinds,      \* kinds[k] = behaviour of job k (the jobs accepted so far)
    claimLog,   \* history: the successful recv calls, in order, as [w, j]
    runs,       \* history: how many times job k has been called
    log,        \* history: the jobs that returned, in order of return
    shutMsgs,   \* stdout: number of "Shutting down thread, id: k" lines
    discMsgs    \* stdout: number of "Worker k disconnected; shutting down." lines

vars == << size, mainPc, next, sender, workers, wstate, cur, guards, poisoned,
           queue, kinds, claimLog, runs, log, shutMsgs, discMsgs >>

mainVars == << size, mainPc, next, sender, workers, shutMsgs >>
chanVars == << queue, kinds, claimLog >>
threadVars == << wstate, cur, guards, poisoned, runs, log, discMsgs >>

----------------------------------------------------------------------------
\* A thread that has been spawned and has neither returned nor panicked.
Live(i) == wstate[i] \notin {"none", "exited", "panicked"}

\* The Arc<Mutex<Receiver>> is alive while `new` still holds its own
\* reference or some worker closure (which owns a clone) is still running.
ReceiverExists ==
    \/ mainPc \in {"new", "spawning"}
    \/ \E i \in Ids : Live(i)

Init ==
    /\ size \in 0 .. MaxSize
    /\ mainPc = "new"
    /\ next = 0
    /\ sender = "uninit"
    /\ workers = << >>
    /\ wstate = [i \in Ids |-> "none"]
    /\ cur = [i \in Ids |-> NoJob]
    /\ guards = {}
    /\ poisoned = FALSE
    /\ queue = << >>
    /\ kinds = << >>
    /\ claimLog = << >>
    /\ runs = [j \in JobIds |-> 0]
    /\ log = << >>
    /\ shutMsgs = [i \in Ids |-> 0]
    /\ discMsgs = [i \in Ids |-> 0]

----------------------------------------------------------------------------
\* Variant of NewAssert: the assertion on size is missing.
NewAssertMissing ==
    /\ mainPc = "new"
    /\ mainPc' = "spawning"
    /\ sender' = "Some"
    /\ next' = 0
    /\ UNCHANGED << size, workers, shutMsgs, chanVars, threadVars >>

\* ThreadPool::new, lines 28-37: the assertion, the channel, the vector.
NewAssert ==
    /\ mainPc = "new"
    /\ IF size > 0
         THEN /\ mainPc' = "spawning"
              /\ sender' = "Some"
              /\ next' = 0
         ELSE /\ mainPc' = "new_panicked"
              /\ UNCHANGED << sender, next >>
    /\ UNCHANGED << size, workers, shutMsgs, chanVars, threadVars >>

\* Worker::new: spawn the thread (it starts at the top of its loop) and
\* build the Worker record; ThreadPool::new pushes it.
Spawn ==
    /\ mainPc = "spawning"
    /\ next < size
    /\ workers' = Append(workers, [id |-> next, thread |-> "Some"])
    /\ wstate' = [wstate EXCEPT ![next] = "lock"]
    /\ next' = next + 1
    /\ UNCHANGED << size, mainPc, sender, shutMsgs, chanVars,
                    cur, guards, poisoned, runs, log, discMsgs >>

\* ThreadPool::new, lines 43-46: the loop is over, the pool is returned.
NewReturn ==
    /\ mainPc = "spawning"
    /\ next = size
    /\ mainPc' = "accepting"
    /\ UNCHANGED << size, next, sender, workers, shutMsgs, chanVars, threadVars >>

\* Variant of Execute: the new job is put in front of the buffered ones.
ExecutePushFront(kind) ==
    /\ mainPc = "accepting"
    /\ Len(kinds) < MaxJobs
    /\ IF ReceiverExists
         THEN /\ kinds' = Append(kinds, kind)
              /\ queue' = << Len(kinds) + 1 >> \o queue
              /\ UNCHANGED mainPc
         ELSE /\ mainPc' = "send_panicked"
              /\ UNCHANGED << kinds, queue >>
    /\ UNCHANGED << size, next, sender, workers, shutMsgs, claimLog, threadVars >>

\* Variant of Execute: a rendezvous-like channel, send waits until the
\* buffer is empty.
ExecuteBounded(kind) ==
    /\ mainPc = "accepting"
    /\ Len(kinds) < MaxJobs
    /\ queue = << >>
    /\ IF ReceiverExists
         THEN /\ kinds' = Append(kinds, kind)
              /\ queue' = Append(queue, Len(kinds) + 1)
              /\ UNCHANGED mainPc
         ELSE /\ mainPc' = "send_panicked"
              /\ UNCHANGED << kinds, queue >>
    /\ UNCHANGED << size, next, sender, workers, shutMsgs, claimLog, threadVars >>

\* Variant of Execute: the result of send is discarded; on a failed send
\* the call returns as if the job had been accepted.
ExecuteIgnoreErr(kind) ==
    /\ mainPc = "accepting"
    /\ Len(kinds) < MaxJobs
    /\ kinds' = Append(kinds, kind)
    /\ IF ReceiverExists
         THEN queue' = Append(queue, Len(kinds) + 1)
         ELSE UNCHANGED queue
    /\ UNCHANGED << size, mainPc, next, sender, workers, shutMsgs, claimLog,
                    threadVars >>

\* ThreadPool::execute: box the closure and send it.  Sender::send fails
\* only when the receiver has been dropped; the unwrap then panics.
Execute(kind) ==
    /\ mainPc = "accepting"
    /\ Len(kinds) < MaxJobs
    /\ IF ReceiverExists
         THEN /\ kinds' = Append(kinds, kind)
              /\ queue' = Append(queue, Len(kinds) + 1)
              /\ UNCHANGED mainPc
         ELSE /\ mainPc' = "send_panicked"
              /\ UNCHANGED << kinds, queue >>
    /\ UNCHANGED << size, next, sender, workers, shutMsgs, claimLog, threadVars >>

\* Variant of DropSender: the sender is not dropped before the joins.
DropSenderKeepsSender ==
    /\ mainPc = "accepting"
    /\ next' = 0
    /\ mainPc' = "drop_loop"
    /\ UNCHANGED << size, sender, workers, shutMsgs, chanVars, threadVars >>

\* Drop, line 63: drop(self.sender.take()).
DropSender ==
    /\ mainPc = "accepting"
    /\ sender' = "None"
    /\ next' = 0
    /\ mainPc' = "drop_loop"
    /\ UNCHANGED << size, workers, shutMsgs, chanVars, threadVars >>

\* Drop, lines 65-68: next worker of the loop, the println, thread.take().
DropNext ==
    /\ mainPc = "drop_loop"
    /\ next < Len(workers)
    /\ shutMsgs' = [shutMsgs EXCEPT ![workers[next + 1].id] = @ + 1]
    /\ IF workers[next + 1].thread = "Some"
         THEN /\ workers' = [workers EXCEPT ![next + 1].thread = "None"]
              /\ mainPc' = "join"
              /\ UNCHANGED next
         ELSE /\ next' = next + 1
              /\ UNCHANGED << workers, mainPc >>
    /\ UNCHANGED << size, sender, chanVars, threadVars >>

\* Variant of JoinReturn: the handle is dropped (detached) instead of
\* joined, so the loop goes on at once.
JoinReturnNoWait ==
    /\ mainPc = "join"
    /\ mainPc' = "drop_loop"
    /\ next' = next + 1
    /\ UNCHANGED << size, sender, workers, shutMsgs, chanVars, threadVars >>

\* Variant of JoinReturn: the result of join is discarded; the loop goes
\* on after a worker that panicked.
JoinReturnSwallow ==
    /\ mainPc = "join"
    /\ wstate[workers[next + 1].id] \in {"exited", "panicked"}
    /\ mainPc' = "drop_loop"
    /\ next' = next + 1
    /\ UNCHANGED << size, sender, workers, shutMsgs, chanVars, threadVars >>

\* Drop, line 69: thread.join().unwrap().  join blocks until the thread is
\* over and is Err when it panicked.
JoinReturn ==
    /\ mainPc = "join"
    /\ wstate[workers[next + 1].id] \in {"exited", "panicked"}
    /\ IF wstate[workers[next + 1].id] = "exited"
         THEN /\ mainPc' = "drop_loop"
              /\ next' = next + 1
         ELSE /\ mainPc' = "join_panicked"
              /\ UNCHANGED next
    /\ UNCHANGED << size, sender, workers, shutMsgs, chanVars, threadVars >>

\* Drop, line 72: the loop is over, drop returns.
DropReturn ==
    /\ mainPc = "drop_loop"
    /\ next = Len(workers)
    /\ mainPc' = "stopped"
    /\ UNCHANGED << size, next, sender, workers, shutMsgs, chanVars, threadVars >>

----------------------------------------------------------------------------
\* Variant of Lock: the receiver is shared without mutual exclusion.
LockNoExclusion(i) ==
    /\ wstate[i] = "lock"
    /\ wstate' = [wstate EXCEPT ![i] = "recv"]
    /\ guards' = guards \cup {i}
    /\ UNCHANGED << mainVars, chanVars, cur, poisoned, runs, log, discMsgs >>

\* Worker loop, line 91: receiver.lock().unwrap().  lock blocks while
\* another guard exists; on a poisoned mutex the unwrap panics.
Lock(i) ==
    /\ wstate[i] = "lock"
    /\ guards = {}
    /\ IF poisoned
         THEN /\ wstate' = [wstate EXCEPT ![i] = "panicked"]
              /\ UNCHANGED guards
         ELSE /\ wstate' = [wstate EXCEPT ![i] = "recv"]
              /\ guards' = guards \cup {i}
    /\ UNCHANGED << mainVars, chanVars, cur, poisoned, runs, log, discMsgs >>

\* Variant of RecvOk: the job is read but left in the buffer.
RecvOkKeep(i) ==
    /\ wstate[i] = "recv"
    /\ queue # << >>
    /\ cur' = [cur EXCEPT ![i] = Head(queue)]
    /\ claimLog' = Append(claimLog, [w |-> i, j |-> Head(queue)])
    /\ wstate' = [wstate EXCEPT ![i] = "unlock"]
    /\ UNCHANGED << mainVars, queue, kinds, guards, poisoned, runs, log,
                    discMsgs >>

\* Variant of RecvOk: the newest buffered job is taken, not the oldest.
RecvOkLast(i) ==
    /\ wstate[i] = "recv"
    /\ queue # << >>
    /\ cur' = [cur EXCEPT ![i] = queue[Len(queue)]]
    /\ queue' = SubSeq(queue, 1, Len(queue) - 1)
    /\ claimLog' = Append(claimLog, [w |-> i, j |-> queue[Len(queue)]])
    /\ wstate' = [wstate EXCEPT ![i] = "unlock"]
    /\ UNCHANGED << mainVars, kinds, guards, poisoned, runs, log, discMsgs >>

\* Worker loop, line 91: recv() returns Ok(job), the oldest buffered job.
RecvOk(i) ==
    /\ wstate[i] = "recv"
    /\ queue # << >>
    /\ cur' = [cur EXCEPT ![i] = Head(queue)]
    /\ queue' = Tail(queue)
    /\ claimLog' = Append(claimLog, [w |-> i, j |-> Head(queue)])
    /\ wstate' = [wstate EXCEPT ![i] = "unlock"]
    /\ UNCHANGED << mainVars, kinds, guards, poisoned, runs, log, discMsgs >>

\* Variant of RecvErr: the disconnect is reported as soon as the sender is
\* dropped, whatever is still buffered.
RecvErrEarly(i) ==
    /\ wstate[i] = "recv"
    /\ sender = "None"
    /\ cur' = [cur EXCEPT ![i] = NoJob]
    /\ wstate' = [wstate EXCEPT ![i] = "unlock"]
    /\ UNCHANGED << mainVars, chanVars, guards, poisoned, runs, log, discMsgs >>

\* Variant of RecvErr: a non-blocking receive whose "empty" is taken for
\* the disconnect.
RecvErrTry(i) ==
    /\ wstate[i] = "recv"
    /\ queue = << >>
    /\ cur' = [cur EXCEPT ![i] = NoJob]
    /\ wstate' = [wstate EXCEPT ![i] = "unlock"]
    /\ UNCHANGED << mainVars, chanVars, guards, poisoned, runs, log, discMsgs >>

\* Worker loop, line 91: recv() returns Err: nothing is buffered and the
\* sender has been dropped.
RecvErr(i) ==
    /\ wstate[i] = "recv"
    /\ queue = << >>
    /\ sender = "None"
    /\ cur' = [cur EXCEPT ![i] = NoJob]
    /\ wstate' = [wstate EXCEPT ![i] = "unlock"]
    /\ UNCHANGED << mainVars, chanVars, guards, poisoned, runs, log, discMsgs >>

\* Variant of Unlock: the guard outlives the let statement (as with
\* `while let Ok(job) = receiver.lock().unwrap().recv()`), so the job runs
\* with the mutex held.
UnlockKeepsGuard(i) ==
    /\ wstate[i] = "unlock"
    /\ wstate' = [wstate EXCEPT ![i] = "match"]
    /\ UNCHANGED << mainVars, chanVars, cur, guards, poisoned, runs, log,
                    discMsgs >>

\* Worker loop, line 91: the temporary MutexGuard is dropped at the end of
\* the let statement.
Unlock(i) ==
    /\ wstate[i] = "unlock"
    /\ guards' = guards \ {i}
    /\ wstate' = [wstate EXCEPT ![i] = "match"]
    /\ UNCHANGED << mainVars, chanVars, cur, poisoned, runs, log, discMsgs >>

\* Variant of StartJob: the job is handed to a thread of its own and the
\* worker goes back to the receiver at once.
StartJobDetached(i) ==
    /\ wstate[i] = "match"
    /\ cur[i] # NoJob
    /\ runs' = [runs EXCEPT ![cur[i]] = @ + 1]
    /\ wstate' = [wstate EXCEPT ![i] = "lock"]
    /\ UNCHANGED << mainVars, chanVars, cur, guards, poisoned, log, discMsgs >>

\* Worker loop, lines 94-96: Ok(job): the println, then the call of job.
StartJob(i) ==
    /\ wstate[i] = "match"
    /\ cur[i] # NoJob
    /\ runs' = [runs EXCEPT ![cur[i]] = @ + 1]
    /\ wstate' = [wstate EXCEPT ![i] = "running"]
    /\ UNCHANGED << mainVars, chanVars, cur, guards, poisoned, log, discMsgs >>

\* Variant of Disconnected: the thread breaks out of the loop without its
\* println.
DisconnectedSilent(i) ==
    /\ wstate[i] = "match"
    /\ cur[i] = NoJob
    /\ wstate' = [wstate EXCEPT ![i] = "exited"]
    /\ UNCHANGED << mainVars, chanVars, cur, guards, poisoned, runs, log,
                    discMsgs >>

\* Worker loop, lines 98-101: Err(_): the println, then break; the thread
\* is over.
Disconnected(i) ==
    /\ wstate[i] = "match"
    /\ cur[i] = NoJob
    /\ discMsgs' = [discMsgs EXCEPT ![i] = @ + 1]
    /\ wstate' = [wstate EXCEPT ![i] = "exited"]
    /\ UNCHANGED << mainVars, chanVars, cur, guards, poisoned, runs, log >>

\* Variant of JobReturn: the thread body has no loop and is over after
\* its first job.
JobReturnNoLoop(i) ==
    /\ wstate[i] = "running"
    /\ kinds[cur[i]] = "ok"
    /\ log' = Append(log, cur[i])
    /\ cur' = [cur EXCEPT ![i] = NoJob]
    /\ wstate' = [wstate EXCEPT ![i] = "exited"]
    /\ UNCHANGED << mainVars, chanVars, guards, poisoned, runs, discMsgs >>

\* Worker loop, line 96: job() returns; the loop goes round.
JobReturn(i) ==
    /\ wstate[i] = "running"
    /\ kinds[cur[i]] = "ok"
    /\ log' = Append(log, cur[i])
    /\ cur' = [cur EXCEPT ![i] = NoJob]
    /\ wstate' = [wstate EXCEPT ![i] = "lock"]
    /\ UNCHANGED << mainVars, chanVars, guards, poisoned, runs, discMsgs >>

\* Variant of JobPanic: the panic is caught (catch_unwind) and the loop
\* goes round.
JobPanicCaught(i) ==
    /\ wstate[i] = "running"
    /\ kinds[cur[i]] = "panic"
    /\ wstate' = [wstate EXCEPT ![i] = "lock"]
    /\ UNCHANGED << mainVars, chanVars, cur, guards, poisoned, runs, log,
                    discMsgs >>

\* Variant of JobPanic: the panic unwinds through a guard of the receiver
\* mutex and leaves it poisoned.
JobPanicPoison(i) ==
    /\ wstate[i] = "running"
    /\ kinds[cur[i]] = "panic"
    /\ wstate' = [wstate EXCEPT ![i] = "panicked"]
    /\ poisoned' = TRUE
    /\ guards' = guards \ {i}
    /\ UNCHANGED << mainVars, chanVars, cur, runs, log, discMsgs >>

\* Worker loop, line 96: job() panics.  Nothing catches it: the thread
\* unwinds, and a guard it held would be released poisoned.
JobPanic(i) ==
    /\ wstate[i] = "running"
    /\ kinds[cur[i]] = "panic"
    /\ wstate' = [wstate EXCEPT ![i] = "panicked"]
    /\ poisoned' = (poisoned \/ i \in guards)
    /\ guards' = guards \ {i}
    /\ UNCHANGED << mainVars, chanVars, cur, runs, log, discMsgs >>

----------------------------------------------------------------------------
Main ==
    \/ NewAssert
    \/ Spawn
    \/ NewReturn
    \/ \E kind \in Kinds : Execute(kind)
    \/ DropSender
    \/ DropNext
    \/ JoinReturn
    \/ DropReturn

WorkerStep(i) ==
    \/ Lock(i)
    \/ RecvOk(i)
    \/ RecvErr(i)
    \/ Unlock(i)
    \/ StartJob(i)
    \/ Disconnected(i)
    \/ JobReturn(i)
    \/ JobPanic(i)

Next ==
    \/ Main
    \/ \E i \in Ids : WorkerStep(i)

Spec == Init /\ [][Next]_vars

\* Scheduling: every thread that can take a step eventually takes one (the
\* OS schedules every runnable thread; a call that has begun proceeds).
\* Nothing obliges the owner to call execute or to drop the pool.
FairSpec ==
    /\ Spec
    /\ \A i \in Ids : WF_vars(WorkerStep(i))
    /\ WF_vars(NewAssert \/ Spawn \/ NewReturn)
    /\ WF_vars(DropNext \/ JoinReturn \/ DropReturn)

----------------------------------------------------------------------------
\* Helpers of the properties.

\* The jobs accepted onto the queue so far.
Submitted == 1 .. Len(kinds)

\* Every job accepted so far returns when called (no panic, no hang).
AllOk == \A j \in Submitted : kinds[j] = "ok"

\* The workers that have received job j.
ClaimedBy(j) == { claimLog[a].w : a \in { b \in DOMAIN claimLog : claimLog[b].j = j } }

\* How often job j occurs in the sequence s.
Count(s, j) == Cardinality({ a \in DOMAIN s : s[a] = j })

\* The worker thread has been told that the channel is disconnected.
SawDisconnect(i) ==
    \/ wstate[i] = "exited"
    \/ wstate[i] \in {"unlock", "match"} /\ cur[i] = NoJob

\* Shutdown has begun: drop has closed the producer end.
Closing == mainPc \in {"drop_loop", "join"}

----------------------------------------------------------------------------
\* C1: no job is received or run by more than one worker, nor twice by the
\* same worker: every job occurs at most once among the successful recv
\* calls, is called at most once, and a thread only ever holds a job that
\* it received itself and that no other thread holds.
C1_NoDoubleDelivery ==
    /\ \A a, b \in DOMAIN claimLog :
          a # b => claimLog[a].j # claimLog[b].j
    /\ \A j \in JobIds : runs[j] <= 1
    /\ \A j \in JobIds : runs[j] = 1 => Cardinality(ClaimedBy(j)) = 1
    /\ \A i \in Ids :
          (wstate[i] \in {"unlock", "match", "running"} /\ cur[i] # NoJob) =>
             /\ ClaimedBy(cur[i]) = {i}
             /\ \A k \in Ids \ {i} : cur[k] # cur[i]

\* C1 witness: two different workers have each received a job and both
\* jobs are running at the same time.
C1_Witness ==
    \E i, k \in Ids :
        /\ i # k
        /\ wstate[i] = "running" /\ wstate[k] = "running"
        /\ cur[i] # cur[k]
        /\ Len(kinds) = 3 /\ queue # << >>

\* C2: when no job panics or hangs, every submitted job is eventually
\* executed (called once and returned): as the sequence of submissions is
\* finite, whenever jobs have been submitted a state follows in which all
\* the jobs submitted by then have run; and whenever drop has returned
\* every submitted job has been called exactly once and has returned
\* exactly once.
C2_EveryJobExactlyOnce ==
    /\ [](mainPc = "stopped" =>
             \A j \in Submitted : runs[j] = 1 /\ Count(log, j) = 1)
    /\ (Submitted # {}) ~>
          (~AllOk \/ \A j \in Submitted : runs[j] = 1 /\ Count(log, j) = 1)

\* C2 witness: drop has returned after three jobs, each run exactly once.
C2_Witness ==
    /\ mainPc = "stopped"
    /\ Len(kinds) = 3
    /\ \A j \in Submitted : runs[j] = 1 /\ Count(log, j) = 1

\* C3: when drop has returned normally the queue is empty, no worker is
\* running a job and every worker thread is over; and a worker sees the
\* disconnect only after the sender was dropped and every accepted job,
\* those buffered at that moment included, has been received by a worker.
C3_ShutdownDrains ==
    /\ mainPc = "stopped" =>
          /\ queue = << >>
          /\ \A i \in Ids : wstate[i] # "running"
          /\ \A i \in 0 .. (size - 1) : wstate[i] = "exited"
    /\ \A i \in Ids : SawDisconnect(i) =>
          /\ sender = "None"
          /\ queue = << >>
          /\ \A j \in Submitted : ClaimedBy(j) # {}
          /\ Len(claimLog) = Len(kinds)

\* C3 witness: drop of a pool of two workers has returned after three
\* jobs were accepted.
C3_Witness ==
    /\ mainPc = "stopped"
    /\ size = 2
    /\ Len(kinds) = 3

\* C4: once drop has closed the producer end, and unless a job panics or
\* hangs, drop eventually returns with every worker thread over.
C4_ShutdownTerminates ==
    Closing ~>
        (~AllOk \/ (mainPc = "stopped" /\ \A i \in 0 .. (size - 1) : wstate[i] = "exited"))

\* C4 witness: a pool of the largest size was dropped with no job ever
\* submitted, and drop has returned.
C4_Witness ==
    /\ mainPc = "stopped"
    /\ size = MaxSize
    /\ kinds = << >>

\* C5: the join of a worker begins (its handle is taken) only after the
\* sender was dropped, in the order of the ids 0, 1, ..., and only after
\* the threads of all workers before it are over.
C5_CloseThenJoinInOrder ==
    \A k \in DOMAIN workers :
        workers[k].thread = "None" =>
            /\ sender = "None"
            /\ workers[k].id = k - 1
            /\ \A m \in 1 .. (k - 1) :
                  /\ workers[m].thread = "None"
                  /\ wstate[workers[m].id] = "exited"

\* C5 witness: the owner waits in the join of worker 1, worker 0 is over,
\* worker 1 is still running a job.
C5_Witness ==
    /\ mainPc = "join"
    /\ Len(workers) >= 2
    /\ workers[2].thread = "None"
    /\ wstate[0] = "exited"
    /\ wstate[1] = "running"

\* C6: jobs are received in submission order (the a-th successful recv
\* returns the a-th submitted job), and on a pool of size 1 the jobs start
\* and return in submission order, each one only after its predecessor
\* has returned.
C6_Fifo ==
    /\ \A a \in DOMAIN claimLog : claimLog[a].j = a
    /\ size = 1 =>
          /\ \A a \in DOMAIN log : log[a] = a
          /\ \A j \in JobIds : runs[j] > 0 =>
                \A k \in 1 .. (j - 1) : runs[k] > 0 /\ Count(log, k) = 1

\* C6 witness: a pool of size 1 has run three jobs; the log is 1, 2, 3.
C6_Witness ==
    /\ size = 1
    /\ log = << 1, 2, 3 >>

\* C7: a job can return before a job submitted earlier only on another
\* worker: whenever the log holds a later job before an earlier one, the
\* two were received by different workers, and each was called once and
\* returned once.
C7_OvertakeOnlyAcrossWorkers ==
    \A a, b \in DOMAIN log :
        (a < b /\ log[a] > log[b]) =>
            /\ size >= 2
            /\ ClaimedBy(log[a]) \cap ClaimedBy(log[b]) = {}
            /\ runs[log[a]] = 1 /\ runs[log[b]] = 1
            /\ Count(log, log[a]) = 1 /\ Count(log, log[b]) = 1

\* C7 witness: job 2 has returned while job 1, submitted before it, is
\* still running on another worker.
C7_Witness ==
    /\ log = << 2 >>
    /\ runs[1] = 1 /\ runs[2] = 1
    /\ \E i \in Ids : wstate[i] = "running" /\ cur[i] = 1

\* A step of execute: the owner, in the accepting state, either gets a job
\* accepted or panics on the failed send.
ExecuteStep ==
    /\ mainPc = "accepting"
    /\ (kinds' # kinds \/ mainPc' = "send_panicked")

\* C8 as stated: in every accepting state an execute step is possible, and
\* the step only appends the job to the queue, leaving the pool, the worker
\* threads, the mutex and what was buffered before unchanged.
C8_Original ==
    /\ [](mainPc = "accepting" /\ Len(kinds) < MaxJobs =>
             ENABLED (\E kind \in Kinds : Execute(kind)))
    /\ [][ExecuteStep =>
             /\ queue' = Append(queue, Len(kinds) + 1)
             /\ Len(kinds') = Len(kinds) + 1
             /\ UNCHANGED << mainPc, sender, workers, threadVars, claimLog >>]_vars

\* C8 amended: in every accepting state an execute step is possible
\* whatever is buffered, whatever the workers do and whoever holds the
\* mutex; while the receiver exists (a worker thread is alive) the step
\* only appends the job to the queue; when every worker thread has died the
\* step panics on the failed send and appends nothing; either way it
\* leaves the worker threads, the mutex and the buffered jobs unchanged.
C8_SubmitNeverBlocks ==
    /\ [](mainPc = "accepting" /\ Len(kinds) < MaxJobs =>
             ENABLED (\E kind \in Kinds : Execute(kind)))
    /\ [][ExecuteStep =>
             /\ UNCHANGED << sender, workers, threadVars, claimLog >>
             /\ IF \E i \in Ids : Live(i)
                  THEN /\ queue' = Append(queue, Len(kinds) + 1)
                       /\ Len(kinds') = Len(kinds) + 1
                       /\ UNCHANGED mainPc
                  ELSE /\ mainPc' = "send_panicked"
                       /\ UNCHANGED << queue, kinds >>]_vars

\* C8 witness: a third job has been accepted while both earlier jobs were
\* still buffered behind busy workers.
C8_Witness ==
    /\ mainPc = "accepting"
    /\ Len(queue) >= 2
    /\ Len(kinds) = 3
    /\ \A i \in 0 .. (size - 1) : wstate[i] = "running"
    /\ size >= 1

\* C9: new(size) with size >= 1 yields exactly size workers with the ids
\* 0 .. size-1, one thread each, and the number never changes afterwards;
\* new(0) panics with no worker, no thread and no pool.
C9_SizeFixed ==
    /\ mainPc \notin {"new", "spawning", "new_panicked"} =>
          /\ size >= 1
          /\ Len(workers) = size
          /\ \A k \in DOMAIN workers : workers[k].id = k - 1
          /\ { i \in Ids : wstate[i] # "none" } = 0 .. (size - 1)
    /\ (size = 0 /\ mainPc # "new") =>
          /\ mainPc = "new_panicked"
          /\ workers = << >>
          /\ sender = "uninit"
          /\ \A i \in Ids : wstate[i] = "none"
    /\ mainPc = "new_panicked" => size = 0

\* C9 witness: a pool of two workers has gone through its whole life.
C9_Witness ==
    /\ mainPc = "stopped"
    /\ size = 2
    /\ Len(workers) = 2
    /\ Len(log) >= 1

\* C10: at most one thread holds a guard of the receiver mutex, a thread
\* is inside its receive attempt exactly while it holds the guard, and a
\* job leaves the channel only into the hands of the thread that holds the
\* guard.
C10_ReceiveExclusive ==
    /\ [](/\ Cardinality(guards) <= 1
          /\ \A i \in Ids : wstate[i] \in {"recv", "unlock"} <=> i \in guards)
    /\ [][Len(claimLog') > Len(claimLog) =>
             LET c == claimLog'[Len(claimLog')]
             IN  /\ guards = {c.w}
                 /\ guards' = {c.w}
                 /\ queue # << >>
                 /\ c.j = Head(queue)
                 /\ queue' = Tail(queue)]_vars

\* C10 witness: one worker holds the guard with a job in hand while the
\* other waits for the mutex and a job is buffered.
C10_Witness ==
    \E i, k \in Ids :
        /\ i # k
        /\ guards = {i}
        /\ wstate[i] = "unlock" /\ cur[i] # NoJob
        /\ wstate[k] = "lock"
        /\ queue # << >>

----------------------------------------------------------------------------
\* The states of the worker state machine: Idle is the thread between the
\* top of its loop and the match on recv's result, Running is the thread
\* inside job(), Terminated is the thread after the break.
Idle(i) == wstate[i] \in {"lock", "recv", "unlock", "match"}
Running(i) == wstate[i] = "running"
Terminated(i) == wstate[i] = "exited"
Dead(i) == wstate[i] = "panicked"

\* The workers that are alive (spawned, neither terminated nor dead).
LiveWorkers == { i \in Ids : Live(i) }

\* Worker i receives a job in this step.
Claims(i) ==
    /\ Len(claimLog') > Len(claimLog)
    /\ claimLog'[Len(claimLog')].w = i

C12_PanicKillsWorker ==
    /\ [][\A i \in Ids :
            /\ (Running(i) /\ kinds[cur[i]] = "panic")
                  => (wstate'[i] \in {"running", "panicked"})
            /\ Dead(i) => (Dead(i)' /\ ~Claims(i) /\ i \notin guards')
            /\ (wstate[i] # "none" /\ mainPc # "spawning")
                  => wstate'[i] # "none"
            /\ (Live(i)' /\ ~Live(i)) => (mainPc = "spawning" /\ i = next)]_vars
    /\ [](mainPc \notin {"new", "spawning", "new_panicked"} =>
             Cardinality(LiveWorkers) =
                 size - Cardinality({ i \in Ids : Terminated(i) })
                      - Cardinality({ j \in Submitted :
                            /\ kinds[j] = "panic"
                            /\ runs[j] > 0
                            /\ \A i \in Ids : ~(Running(i) /\ cur[i] = j) }))

\* C12 witness: two jobs have panicked, both workers of a pool of two are
\* dead, and a job is left in the queue.
C12_Witness ==
    /\ size = 2
    /\ Dead(0) /\ Dead(1)
    /\ queue # << >>
    /\ mainPc = "accepting"

\* The worker whose join the owner is in.
Joined == workers[next + 1].id

\* C13: a join of a worker that died of its job's panic ends drop in a
\* panic: the owner leaves that join only into the panic, it does get
\* there, the panic is final, and drop never returns normally while some
\* worker is dead.
C13_JoinFailurePropagates ==
    /\ [][(mainPc = "join" /\ Dead(Joined)) =>
             mainPc' \in {"join", "join_panicked"}]_vars
    /\ [][mainPc = "join_panicked" => mainPc' = "join_panicked"]_vars
    /\ [](mainPc = "join_panicked" => Dead(Joined))
    /\ [](mainPc = "stopped" => \A i \in Ids : ~Dead(i))
    /\ (mainPc = "join" /\ Dead(Joined)) ~> (mainPc = "join_panicked")

\* C13 witness: the join of worker 0 returned normally, the join of
\* worker 1, dead of its job, has ended drop in a panic.
C13_Witness ==
    /\ mainPc = "join_panicked"
    /\ next = 1
    /\ Terminated(0)
    /\ Dead(1)

\* The jobs that returned: called once and in the log once.
Done(j) == runs[j] = 1 /\ Count(log, j) = 1

\* At most one of the jobs accepted so far never returns, and none panics.
OneHangRestOk ==
    /\ \A j \in Submitted : kinds[j] \in {"ok", "hang"}
    /\ Cardinality({ j \in Submitted : kinds[j] = "hang" }) <= 1

\* C14: a worker stuck in a job that never returns holds no guard and
\* stays where it is; on a pool of at least two workers, when one
\* submitted job hangs and the others return, every other submitted job
\* is still eventually executed, and only the worker running the hanging
\* job is taken out: all other workers stay alive until they see the
\* disconnect.
C14_HangStarvesOneWorker ==
    /\ [](\A i \in Ids : (Running(i) /\ kinds[cur[i]] = "hang") => i \notin guards)
    /\ [][\A i \in Ids : (Running(i) /\ kinds[cur[i]] = "hang") =>
             (Running(i)' /\ cur'[i] = cur[i])]_vars
    /\ [](OneHangRestOk =>
             /\ \A i \in Ids : ~Dead(i)
             /\ Cardinality({ i \in Ids : Running(i) /\ kinds[cur[i]] = "hang" }) <= 1)
    /\ (size >= 2 /\ Submitted # {}) ~>
          (~OneHangRestOk \/ \A j \in Submitted : kinds[j] = "ok" => Done(j))

\* C14 witness: on a pool of two, one worker is stuck in the hanging job 1
\* and the other worker has run jobs 2 and 3.
C14_Witness ==
    /\ size = 2
    /\ Len(kinds) = 3
    /\ \E i \in Ids : Running(i) /\ cur[i] = 1 /\ kinds[1] = "hang"
    /\ log = << 2, 3 >>

\* The workers that have received at least one job.
Claimers == { claimLog[a].w : a \in DOMAIN claimLog }

\* C15 as stated: on a pool of more than one worker, when more jobs than
\* workers have been submitted and all of them have been received, more
\* than one worker has received a job; no worker has received them all
\* while every other worker stayed alive and idle without a single job.
C15_Original ==
    (/\ size > 1
     /\ Len(kinds) > size
     /\ Len(claimLog) = Len(kinds)
     /\ \A i \in 0 .. (size - 1) : i \notin Claimers => (Live(i) /\ Idle(i)))
        => Cardinality(Claimers) > 1

\* C15 amended: which worker receives a job is decided by who gets the
\* mutex next, so one worker may receive every job while the others wait;
\* but a worker receives a further job only after the job it received
\* before has returned, so a job received while an earlier job is still
\* being executed always goes to another worker.
C15_OneJobAtATimePerWorker ==
    /\ \A a, b \in DOMAIN claimLog :
          (a < b /\ claimLog[a].w = claimLog[b].w) => Done(claimLog[a].j)
    /\ \A a, b \in DOMAIN claimLog :
          (a < b /\ ~Done(claimLog[a].j)) => claimLog[a].w # claimLog[b].w

\* C15 witness: on a pool of two, worker 0 has received all three jobs
\* while worker 1, alive and idle, has received none.
C15_Witness ==
    /\ size = 2
    /\ Len(claimLog) = 3
    /\ Claimers = {0}
    /\ Live(1) /\ Idle(1)
    /\ Done(1) /\ Done(2)

\* C16: while a worker thread is alive an execute step gets its job
\* accepted onto the queue; the send fails only when no worker thread is
\* alive, and then the step panics, which is final: nothing is appended,
\* nothing is retried, and the call never returns as if the job had been
\* accepted.
C16_SendFailsOnlyWithoutConsumer ==
    /\ [][ExecuteStep =>
             /\ (LiveWorkers # {}) =>
                   /\ mainPc' = "accepting"
                   /\ kinds' # kinds
                   /\ queue' = Append(queue, Len(kinds'))
             /\ (mainPc' = "send_panicked") =>
                   /\ LiveWorkers = {}
                   /\ UNCHANGED << queue, kinds >>
             /\ (LiveWorkers = {}) => mainPc' = "send_panicked"]_vars
    /\ [][mainPc = "send_panicked" =>
             UNCHANGED << mainPc, queue, kinds, sender >>]_vars
    /\ [](mainPc = "send_panicked" => LiveWorkers = {})
    /\ [](\A j \in Submitted :
             \/ \E a \in DOMAIN queue : queue[a] = j
             \/ ClaimedBy(j) # {})

\* C16 witness: both workers of a pool of two have died of their jobs and
\* the next execute has panicked on the failed send.
C16_Witness ==
    /\ mainPc = "send_panicked"
    /\ size = 2
    /\ Len(kinds) = 2
    /\ Dead(0) /\ Dead(1)

\* The pool's workers, by id, that drop has told to stop / that have said
\* that they stop.
ToldToStop(i) == shutMsgs[i] >= 1
SaidStopped(i) == discMsgs[i] >= 1

\* C17 as stated: in a shutdown that returns normally every worker's id
\* has been logged once by the pool and once by the worker, and a worker
\* logs its stop only after the pool has logged that it is told to stop.
C17_Original ==
    /\ [](mainPc = "stopped" =>
             \A i \in 0 .. (size - 1) : shutMsgs[i] = 1 /\ discMsgs[i] = 1)
    /\ [][\A i \in Ids : (discMsgs'[i] > discMsgs[i]) => ToldToStop(i)]_vars

\* C17 amended: in a shutdown that returns normally every worker's id has
\* been logged exactly once by the pool and exactly once by the worker
\* (and never more than once in any run); the pool logs the ids in the
\* order 0, 1, ..., after the sender was dropped, and logs worker k only
\* after every worker before k has logged its own stop; a worker's own
\* stop line is not ordered after its told-to-stop line, it only comes
\* after the sender was dropped.
C17_ShutdownLogs ==
    /\ [](mainPc = "stopped" =>
             \A i \in 0 .. (size - 1) : shutMsgs[i] = 1 /\ discMsgs[i] = 1)
    /\ [](\A i \in Ids : shutMsgs[i] <= 1 /\ discMsgs[i] <= 1)
    /\ [](\A i \in Ids : (ToldToStop(i) \/ SaidStopped(i)) => sender = "None")
    /\ [][\A i \in Ids : (shutMsgs'[i] > shutMsgs[i]) =>
             \A m \in 0 .. (i - 1) : ToldToStop(m) /\ SaidStopped(m)]_vars
    /\ [][\A i \in Ids : (discMsgs'[i] > discMsgs[i]) =>
             (Terminated(i)' /\ ~Terminated(i))]_vars

\* C17 witness: drop of a pool of two that has run a job has returned;
\* both lines are there, one each, for both workers.
C17_Witness ==
    /\ mainPc = "stopped"
    /\ size = 2
    /\ \A i \in 0 .. 1 : shutMsgs[i] = 1 /\ discMsgs[i] = 1
    /\ Len(log) >= 1

\* C18: a guard of the receiver mutex is only ever held by a worker that
\* is in recv or has just come back from it, never by a worker that runs
\* a job, is over or is dead; so while one worker runs a job and a job is
\* buffered, an idle worker can go on towards that job at once: the mutex
\* is free for it, or is held by an idle worker that can take the job.
C18_NoGuardWhileRunning ==
    /\ \A i \in guards : wstate[i] \in {"recv", "unlock"}
    /\ \A i \in Ids : Running(i) => i \notin guards
    /\ \A i \in Ids :
          (/\ Running(i)
           /\ queue # << >>
           /\ \E k \in Ids \ {i} : wstate[k] \in {"lock", "recv"})
             => \E k \in Ids \ {i} :
                   /\ ~Running(k)
                   /\ ENABLED (Lock(k) \/ RecvOk(k) \/ Unlock(k))

\* C18 witness: worker 0 is running a job and worker 1, holding the guard,
\* has just received the next one, with a third still buffered.
C18_Witness ==
    /\ Running(0)
    /\ wstate[1] = "unlock"
    /\ cur[1] # NoJob
    /\ guards = {1}
    /\ queue # << >>

\* Some job accepted so far never returns.
HasHang == \E j \in Submitted : kinds[j] = "hang"

\* C19: a worker dies only in the step in which the job it is itself
\* running panics; the dying worker holds no guard, so the mutex is never
\* poisoned and no dead or terminated worker holds a guard; and the other
\* workers go on: unless a job hangs, every submitted job is eventually
\* started or every worker has died of a job of its own.
C19_FailureDoesNotCascade ==
    /\ [][\A i \in Ids : (Dead(i)' /\ ~Dead(i)) =>
             /\ Running(i)
             /\ kinds[cur[i]] = "panic"
             /\ ClaimedBy(cur[i]) = {i}
             /\ i \notin guards
             /\ \A k \in Ids \ {i} : wstate'[k] = wstate[k]]_vars
    /\ [](~poisoned)
    /\ [](\A i \in guards : Live(i))
    /\ [](\A i \in Ids : Dead(i) =>
             (cur[i] # NoJob /\ kinds[cur[i]] = "panic" /\ runs[cur[i]] = 1))
    /\ (Submitted # {}) ~>
          (\/ HasHang
           \/ \A i \in 0 .. (size - 1) : Dead(i)
           \/ \A j \in Submitted : runs[j] = 1)

\* C19 witness: worker 0 is dead of the panic of job 1; worker 1 has run
\* job 2 and is running job 3.
C19_Witness ==
    /\ Dead(0) /\ cur[0] = 1
    /\ Running(1) /\ cur[1] = 3
    /\ log = << 2 >>
    /\ ClaimedBy(2) = {1}

\* C20: no worker after a dead one is ever joined or told to stop: once
\* the join of a dead worker has ended drop in a panic, drop is over, the
\* handles of all later workers are still untaken, and this can be so
\* while a later worker is running a job and jobs are still buffered.
C20_AbortedShutdownSkipsLaterWorkers ==
    /\ \A k, m \in DOMAIN workers :
          (k < m /\ Dead(workers[k].id)) =>
              (workers[m].thread = "Some" /\ ~ToldToStop(workers[m].id))
    /\ mainPc = "join_panicked" =>
          /\ Dead(Joined)
          /\ workers[next + 1].thread = "None"
          /\ \A m \in (next + 2) .. Len(workers) : workers[m].thread = "Some"
    /\ (\E i \in Ids : Dead(i)) => mainPc # "stopped"

\* C20 witness: the join of worker 0 has ended drop in a panic while
\* worker 1, never joined, is running a job and another job is buffered.
C20_Witness ==
    /\ mainPc = "join_panicked"
    /\ next = 0
    /\ Dead(0)
    /\ Running(1)
    /\ workers[2].thread = "Some"
    /\ queue # << >>

====
